---------------------------- MODULE Spec2Model ----------------------------
(***************************************************************************)
(* Guest-side log adapters of tangent: one ProcessLogs invocation decodes  *)
(* a batch, hands every record to a Handler, routes the handler's outputs  *)
(* into one pooled buffer per sink descriptor and returns the buckets.     *)
(*                                                                         *)
(* Five adapters are modelled, each from its own source:                   *)
(*   "multi"  src/unnamed/part_000 lines 548-719 (newline segments,        *)
(*            s3/file/blackhole/default sinks, processBatch)               *)
(*   "zeek"   src/examples/zeek/wrapper.go (JSON stream decoder, pooled    *)
(*            reader and scratch map, s3/file sinks)                       *)
(*   "ocsf"   src/examples/ocsf-go/wrapper.go (newline segments, S3 only,  *)
(*            raw items)                                                   *)
(*   "s3only" src/unnamed/part_005 (the zeek decode loop, S3 sinks only)   *)
(*   "strkey" src/assets/py_Agents.md lines 341-434 (decode loop, buckets  *)
(*            keyed by a string, no buffer pool)                           *)
(*                                                                         *)
(* A byte is a one-character string.  A bytes.Buffer is an id into heap;   *)
(* a sync.Pool is the set of ids it holds.  ProcessLogs runs to completion *)
(* on one thread, so one loop iteration is one action.                     *)
(***************************************************************************)
EXTENDS Integers, Sequences, FiniteSets, TLC

VARIABLES
    adapter,    \* which Wire installed ProcessLogs: "multi", "zeek", "ocsf", "s3only",
                \* "strkey", "mapper", "basic"
    h,          \* the Handler passed to Wire: "any", "few" or "echo"
    pc,         \* "idle" | "loop" | "assemble" | "done", or "keys" | "keyed"
    in,         \* input.Slice() of the running invocation
    start,      \* scan position of the decode loop
    states,     \* map[sinkKey]*sinkState: key -> id of the bucket's buffer
    heap,       \* the bytes.Buffer objects in existence: id -> contents
    bufPool,    \* ids of the buffers held by bufPool
    got,        \* history: ids bufPool.Get returned during this invocation
    borrowed,   \* ids obtained from bufPool.Get and not yet Put back
    rdrPool,    \* zeek: the bytes.Readers held by rdrPool, each by the slice it reads
    mapPool,    \* zeek: the scratch maps held by mapPool, each by its key set
    r,          \* the cm.Result under construction / returned
    calls,      \* history: the handler calls of this invocation, in order
    invocations,\* history: how many times ProcessLogs has been entered
    peak,       \* history: most buffers one invocation held borrowed at once
    dirtied,    \* history: <<b, n>> when buffer b held bytes during invocation n
    args,       \* arguments of the function applied on its own, outside ProcessLogs
    ret,        \* what it returned
    encPool,    \* mapper: the json.Encoders held by encPool, each by its buffer's id
    loc         \* mapper: the locals buf and enc of the running ProcessLogs

vars ==
    <<adapter, h, pc, in, start, states, heap, bufPool, got, borrowed,
      rdrPool, mapPool, r, calls, invocations, peak, dirtied, args, ret, encPool, loc>>

---------------------------------------------------------------------------
(* Bounds *)

\* Longest input buffer, in bytes (multi) or in JSON values (zeek).
MaxIn == 2
\* Buffers already sitting in bufPool when the invocation starts.
MaxPooled == 1
\* Longest line of the two-line example input (ocsf).
MaxLine == 2
\* Sequential ProcessLogs invocations on one instance.
MaxInvocations == 2
\* Longest sink name and longest key prefix, in bytes.
MaxName == 2
\* Longest input string of the basic ProcessLogs, in bytes.
MaxJson == 4

---------------------------------------------------------------------------
(* Bytes, Go values and their JSON encoding *)

NL == "\n"

RECURSIVE SeqsUpTo(_, _)
SeqsUpTo(S, n) ==
    IF n = 0 THEN {<<>>}
    ELSE LET shorter == SeqsUpTo(S, n - 1)
         IN  shorter \cup {Append(s, x) : s \in {t \in shorter : Len(t) = n - 1}, x \in S}

\* Values a handler may put into LogOutput.Items ([]any): the int 0, the
\* string "s", and a channel, which encoding/json cannot marshal.
GoValues == {"0", "s", "chan"}

\* json.Marshal of a Go value: the compact JSON text, or an error.
Marshal(v) ==
    CASE v = "0"    -> [bytes |-> <<"0">>, err |-> ""]
      [] v = "s"    -> [bytes |-> <<"\"", "s", "\"">>, err |-> ""]
      [] v = "chan" -> [bytes |-> <<>>, err |-> "json: unsupported type: chan int"]

\* (*json.Encoder).Encode: the JSON text followed by a newline; on a marshal
\* error nothing is written.
Encode(v) ==
    LET m == Marshal(v)
    IN  IF m.err # "" THEN m ELSE [bytes |-> m.bytes \o <<NL>>, err |-> ""]

---------------------------------------------------------------------------
(* Sink descriptors (processor.Sink) and sinkKey *)

None == [isSome |-> FALSE, some |-> ""]
Some(v) == [isSome |-> TRUE, some |-> v]

\* A processor.Sink is a variant; name and prefix are the payload fields of
\* the cases that have them (the zero values otherwise).
SinkS3(name, keyPrefix) == [tag |-> "s3", name |-> name, prefix |-> keyPrefix]
SinkFile(name) == [tag |-> "file", name |-> name, prefix |-> None]
SinkBlackhole(name) == [tag |-> "blackhole", name |-> name, prefix |-> None]
SinkDefault == [tag |-> "default", name |-> "", prefix |-> None]
\* A case of the variant that the adapters do not know.
SinkOther == [tag |-> "other", name |-> "", prefix |-> None]

NilPtr == [isNil |-> TRUE, val |-> ""]
Ptr(v) == [isNil |-> FALSE, val |-> v]

S3(name, prefix) ==
    IF ~prefix.isNil THEN SinkS3(name, Some(prefix.val))
    ELSE SinkS3(name, None)

SinkVocab ==
    {S3("out", NilPtr), S3("out", Ptr("p")), SinkFile("out"),
     SinkBlackhole("out"), SinkDefault, SinkOther}

ZeroKey == [name |-> "", prefix |-> None, sinkType |-> ""]

\* Mutant: a present but empty key prefix is keyed like an absent one.
sinkKeyFromEmptyAsNone(s) ==
    IF s.tag = "s3"
        THEN [key |-> [name |-> s.name,
                       prefix |-> IF s.prefix.some = "" THEN None ELSE s.prefix,
                       sinkType |-> "s3"], err |-> ""]
    ELSE IF s.tag = "file"
        THEN [key |-> [name |-> s.name, prefix |-> None, sinkType |-> "file"], err |-> ""]
    ELSE IF s.tag = "blackhole"
        THEN [key |-> [name |-> s.name, prefix |-> None, sinkType |-> "blackhole"], err |-> ""]
    ELSE IF s.tag = "default"
        THEN [key |-> [name |-> "", prefix |-> None, sinkType |-> "default"], err |-> ""]
    ELSE [key |-> ZeroKey, err |-> "unknown sink type"]

\* Mutant: a sink of no known case is keyed as the default sink.
sinkKeyFromLenient(s) ==
    IF s.tag = "s3"
        THEN [key |-> [name |-> s.name, prefix |-> s.prefix, sinkType |-> "s3"], err |-> ""]
    ELSE IF s.tag = "file"
        THEN [key |-> [name |-> s.name, prefix |-> None, sinkType |-> "file"], err |-> ""]
    ELSE IF s.tag = "blackhole"
        THEN [key |-> [name |-> s.name, prefix |-> None, sinkType |-> "blackhole"], err |-> ""]
    ELSE [key |-> [name |-> "", prefix |-> None, sinkType |-> "default"], err |-> ""]

sinkKeyFrom(s) ==
    IF s.tag = "s3"
        THEN [key |-> [name |-> s.name, prefix |-> s.prefix, sinkType |-> "s3"], err |-> ""]
    ELSE IF s.tag = "file"
        THEN [key |-> [name |-> s.name, prefix |-> None, sinkType |-> "file"], err |-> ""]
    ELSE IF s.tag = "blackhole"
        THEN [key |-> [name |-> s.name, prefix |-> None, sinkType |-> "blackhole"], err |-> ""]
    ELSE IF s.tag = "default"
        THEN [key |-> [name |-> "", prefix |-> None, sinkType |-> "default"], err |-> ""]
    ELSE [key |-> ZeroKey, err |-> "unknown sink type"]

\* Mutant: the s3 case leaves KeyPrefix at its zero value.
MultiSinkOfNoPrefix(k) ==
    CASE k.sinkType = "default"   -> SinkDefault
      [] k.sinkType = "s3"        -> SinkS3(k.name, None)
      [] k.sinkType = "file"      -> SinkFile(k.name)
      [] k.sinkType = "blackhole" -> SinkBlackhole(k.name)

\* The switch on st.key.sinkType that rebuilds the sink of a result entry.
MultiSinkOf(k) ==
    CASE k.sinkType = "default"   -> SinkDefault
      [] k.sinkType = "s3"        -> SinkS3(k.name, k.prefix)
      [] k.sinkType = "file"      -> SinkFile(k.name)
      [] k.sinkType = "blackhole" -> SinkBlackhole(k.name)

---------------------------------------------------------------------------
(* Buffers and bufPool *)

\* An id no buffer in existence has: new(bytes.Buffer).
NewBuffer(hp) ==
    CHOOSE b \in 1..(Cardinality(DOMAIN hp) + 1) :
        b \notin DOMAIN hp /\ \A c \in 1..(b - 1) : c \in DOMAIN hp

\* Mutant: Get never hands out a pooled buffer, it always calls New().
PoolGetAlwaysNew(st) ==
    LET b == NewBuffer(st.heap)
    IN  [st |-> [st EXCEPT !.heap = @ @@ (b :> <<>>), !.got = @ \cup {b},
                              !.borrowed = @ \cup {b}],
         buf |-> b]

\* bufPool.Get(): a pooled buffer if there is one, else New().  The pooled
\* buffers are interchangeable up to their id; the largest id is taken.
PoolGet(st) ==
    IF st.bufPool # {}
    THEN LET b == CHOOSE x \in st.bufPool : \A y \in st.bufPool : y <= x
         IN  [st |-> [st EXCEPT !.bufPool = @ \ {b}, !.got = @ \cup {b},
                                   !.borrowed = @ \cup {b}],
              buf |-> b]
    ELSE LET b == NewBuffer(st.heap)
         IN  [st |-> [st EXCEPT !.heap = @ @@ (b :> <<>>), !.got = @ \cup {b},
                                   !.borrowed = @ \cup {b}],
              buf |-> b]

\* Mutant: Reset leaves the contents in place.
BufResetKeeps(hp, b) == hp

\* buf.Reset()
BufReset(hp, b) == [hp EXCEPT ![b] = <<>>]

\* bufPool.Put(buf)
PoolPut(st, b) == [st EXCEPT !.bufPool = @ \cup {b}, !.borrowed = @ \ {b}]

Store ==
    [states |-> states, heap |-> heap, bufPool |-> bufPool, got |-> got,
     borrowed |-> borrowed]

\* The buffers the running invocation holds: taken by it and not put back.
Held(st) == st.got \cap st.borrowed

\* The histories after a loop iteration left the store as st.
Peak(st) == IF Cardinality(Held(st)) > peak THEN Cardinality(Held(st)) ELSE peak
Dirtied(st) ==
    dirtied \cup {<<b, invocations>> : b \in {x \in Held(st) : st.heap[x] # <<>>}}

---------------------------------------------------------------------------
(* The handler *)

HandlerError == "handler error"

SinkLists == SeqsUpTo(SinkVocab, 2)
ItemLists == SeqsUpTo(GoValues, 2)

\* What h.ProcessLog may return to the multi-sink adapter: an error, nil, or
\* a LogOutput.  Every sink list is tried with one item, and every item list
\* with two sink lists: two known sinks, and a known sink before an unknown.
MultiOutputs ==
    {[kind |-> "out", sinks |-> s, items |-> <<"0">>] : s \in SinkLists}
    \cup {[kind |-> "out", sinks |-> s, items |-> i] :
            s \in {<<S3("out", NilPtr), SinkFile("out")>>,
                   <<S3("out", NilPtr), SinkOther>>},
            i \in ItemLists}

\* The outputs of a handler that serves one or two sinks with one item, and
\* may name a sink of no known case after a known one.
FewOutputs ==
    {[kind |-> "out", sinks |-> <<S3("out", NilPtr)>>, items |-> <<"0">>],
     [kind |-> "out", sinks |-> <<S3("out", NilPtr), SinkFile("out")>>, items |-> <<"s">>],
     [kind |-> "out", sinks |-> <<S3("out", NilPtr), SinkOther>>, items |-> <<"0">>]}

MultiHandler ==
    {[kind |-> "err", sinks |-> <<>>, items |-> <<>>],
     [kind |-> "nil", sinks |-> <<>>, items |-> <<>>]}
    \cup (IF h = "few" THEN FewOutputs ELSE MultiOutputs)

---------------------------------------------------------------------------
(* multi: unnamed/part_000, Wire and processBatch *)

Bytes == {"a", NL}
MultiInputs == SeqsUpTo(Bytes, MaxIn)

\* Mutant: the index of the last c in s.
IndexByteLast(s, c) ==
    IF \E i \in 1..Len(s) : s[i] = c
    THEN (CHOOSE i \in 1..Len(s) : s[i] = c /\ \A j \in (i + 1)..Len(s) : s[j] # c) - 1
    ELSE -1

\* bytes.IndexByte(s, c): index of the first c in s, from 0, or -1.
IndexByte(s, c) ==
    IF \E i \in 1..Len(s) : s[i] = c
    THEN (CHOOSE i \in 1..Len(s) : s[i] = c /\ \A j \in 1..(i - 1) : s[j] # c) - 1
    ELSE -1

\* in[lo:hi], Go's half-open slice with indices from 0.
Slice(s, lo, hi) == SubSeq(s, lo + 1, hi)

\* Mutant: the newline itself is not stepped over.
AdvanceOnto(pos, i) == pos + i

\* start += i + 1
Advance(pos, i) == pos + i + 1

RECURSIVE EncodeItems(_, _)
\* Mutant: each item is written in front of what the buffer holds.
EncodeItemsPrepend(data, items) ==
    IF items = <<>> THEN [data |-> data, err |-> ""]
    ELSE LET e == Encode(Head(items))
         IN  IF e.err # "" THEN [data |-> data, err |-> e.err]
             ELSE EncodeItems(e.bytes \o data, Tail(items))

\* for _, item := range out.Items { enc.Encode(item) }, on buffer contents.
EncodeItems(data, items) ==
    IF items = <<>> THEN [data |-> data, err |-> ""]
    ELSE LET e == Encode(Head(items))
         IN  IF e.err # "" THEN [data |-> data, err |-> e.err]
             ELSE EncodeItems(data \o e.bytes, Tail(items))

\* Mutant: the lookup result is ignored and a bucket is made every time.
BucketAlwaysNew(st, k) ==
    LET g == PoolGet(st)
    IN  [g.st EXCEPT !.heap = BufReset(@, g.buf),
                     !.states = (k :> g.buf) @@ @]

\* states[k], creating the bucket on a buffer from bufPool when missing.
Bucket(st, k) ==
    IF k \in DOMAIN st.states THEN st
    ELSE LET g == PoolGet(st)
         IN  [g.st EXCEPT !.heap = BufReset(@, g.buf),
                          !.states = @ @@ (k :> g.buf)]

RECURSIVE RouteSinks(_, _, _)
\* Mutant: only the first sink of the list is served.
RouteSinksFirstOnly(st, sinks, items) ==
    IF sinks = <<>> THEN [st |-> st, err |-> ""]
    ELSE LET k == sinkKeyFrom(Head(sinks))
         IN  IF k.err # "" THEN [st |-> st, err |-> k.err]
             ELSE LET st1 == Bucket(st, k.key)
                      b   == st1.states[k.key]
                      e   == EncodeItems(st1.heap[b], items)
                      st2 == [st1 EXCEPT !.heap[b] = e.data]
                  IN  [st |-> st2, err |-> e.err]

\* Mutant: a descriptor listed again later in the list is served once.
RouteSinksDedup(st, sinks, items) ==
    IF sinks = <<>> THEN [st |-> st, err |-> ""]
    ELSE IF \E i \in 2..Len(sinks) : sinks[i] = Head(sinks)
        THEN RouteSinks(st, Tail(sinks), items)
    ELSE LET k == sinkKeyFrom(Head(sinks))
         IN  IF k.err # "" THEN [st |-> st, err |-> k.err]
             ELSE LET st1 == Bucket(st, k.key)
                      b   == st1.states[k.key]
                      e   == EncodeItems(st1.heap[b], items)
                      st2 == [st1 EXCEPT !.heap[b] = e.data]
                  IN  IF e.err # "" THEN [st |-> st2, err |-> e.err]
                      ELSE RouteSinks(st2, Tail(sinks), items)

\* Mutant: an output without items creates no bucket.
RouteSinksSkipEmpty(st, sinks, items) ==
    IF sinks = <<>> \/ items = <<>> THEN [st |-> st, err |-> ""]
    ELSE LET k == sinkKeyFrom(Head(sinks))
         IN  IF k.err # "" THEN [st |-> st, err |-> k.err]
             ELSE LET st1 == Bucket(st, k.key)
                      b   == st1.states[k.key]
                      e   == EncodeItems(st1.heap[b], items)
                      st2 == [st1 EXCEPT !.heap[b] = e.data]
                  IN  IF e.err # "" THEN [st |-> st2, err |-> e.err]
                      ELSE RouteSinks(st2, Tail(sinks), items)

\* for _, s := range sinks { ... } of processBatch.
RouteSinks(st, sinks, items) ==
    IF sinks = <<>> THEN [st |-> st, err |-> ""]
    ELSE LET k == sinkKeyFrom(Head(sinks))
         IN  IF k.err # "" THEN [st |-> st, err |-> k.err]
             ELSE LET st1 == Bucket(st, k.key)
                      b   == st1.states[k.key]
                      e   == EncodeItems(st1.heap[b], items)
                      st2 == [st1 EXCEPT !.heap[b] = e.data]
                  IN  IF e.err # "" THEN [st |-> st2, err |-> e.err]
                      ELSE RouteSinks(st2, Tail(sinks), items)

\* Mutant: an empty sink list is left empty.
MultiSinksNoDefault(out) == out.sinks

\* The sink list processBatch iterates over.
MultiSinks(out) ==
    IF Len(out.sinks) = 0 THEN <<SinkDefault>> ELSE out.sinks

\* Mutant: the handler's error is dropped.
processBatchIgnoreErr(st, out) ==
    IF out.kind = "err" \/ out.kind = "nil" THEN [st |-> st, err |-> ""]
    ELSE RouteSinks(st, MultiSinks(out), out.items)

\* Mutant: a nil output is reported as an error.
processBatchNilIsErr(st, out) ==
    IF out.kind = "err" \/ out.kind = "nil" THEN [st |-> st, err |-> HandlerError]
    ELSE RouteSinks(st, MultiSinks(out), out.items)

processBatch(st, out) ==
    IF out.kind = "err" THEN [st |-> st, err |-> HandlerError]
    ELSE IF out.kind = "nil" THEN [st |-> st, err |-> ""]
    ELSE RouteSinks(st, MultiSinks(out), out.items)

ZeroResult == [isErr |-> FALSE, ok |-> {}, err |-> ""]
SetErr(msg) == [isErr |-> TRUE, ok |-> {}, err |-> msg]
SetOK(outputs) == [isErr |-> FALSE, ok |-> outputs, err |-> ""]

EmptyStates == [k \in {} |-> 0]

\* ProcessLogs up to the decode loop: an empty input returns the zero result.
MultiProcessLogs ==
    /\ adapter = "multi" /\ pc = "idle"
    /\ UNCHANGED <<args, ret, encPool, loc>>
    /\ \E input \in MultiInputs :
        /\ in' = input
        /\ IF Len(input) = 0
           THEN pc' = "done"
           ELSE pc' = "loop"
    /\ start' = 0
    /\ states' = EmptyStates
    /\ r' = ZeroResult
    /\ calls' = <<>>
    /\ got' = {}
    /\ invocations' = invocations + 1
    /\ UNCHANGED <<adapter, h, heap, bufPool, borrowed, rdrPool, mapPool, peak, dirtied>>

\* One iteration of `for start < len(in)`.
MultiLoop ==
    /\ adapter = "multi" /\ pc = "loop" /\ start < Len(in)
    /\ UNCHANGED <<args, ret, encPool, loc>>
    /\ LET i   == IndexByte(Slice(in, start, Len(in)), NL)
           seg == IF i < 0 THEN Slice(in, start, Len(in)) ELSE Slice(in, start, start + i)
       IN  \E out \in MultiHandler :
            LET res == processBatch(Store, out)
            IN  /\ calls' = Append(calls, [seg |-> seg, out |-> out])
                /\ states' = res.st.states
                /\ heap' = res.st.heap
                /\ bufPool' = res.st.bufPool
                /\ got' = res.st.got
                /\ borrowed' = res.st.borrowed
                /\ peak' = Peak(res.st)
                /\ dirtied' = Dirtied(res.st)
                /\ IF res.err # ""
                   THEN /\ r' = SetErr(res.err)
                        /\ pc' = "done"
                        /\ start' = start
                   ELSE /\ r' = r
                        /\ start' = IF i < 0 THEN start ELSE Advance(start, i)
                        /\ pc' = IF i < 0 \/ Advance(start, i) >= Len(in)
                                 THEN "assemble" ELSE "loop"
    /\ UNCHANGED <<adapter, h, in, rdrPool, mapPool, invocations>>

\* The outputs built from the buckets.
MultiOutputsOf(st) ==
    {[sink |-> MultiSinkOf(k), data |-> st.heap[st.states[k]], buf |-> st.states[k]] :
        k \in DOMAIN st.states}

RECURSIVE ReleaseAll(_, _)
\* for _, st := range states { st.buf.Reset(); bufPool.Put(st.buf) }
ReleaseAll(st, bufs) ==
    IF bufs = {} THEN st
    ELSE LET b == CHOOSE x \in bufs : TRUE
         IN  ReleaseAll(PoolPut([st EXCEPT !.heap = BufReset(@, b)], b), bufs \ {b})

\* After the loop: build the outputs, release the buffers, SetOK.
MultiAssemble ==
    /\ adapter = "multi" /\ pc = "assemble"
    /\ UNCHANGED <<args, ret, encPool, loc>>
    /\ LET st == ReleaseAll(Store, {states[k] : k \in DOMAIN states})
       IN  /\ r' = SetOK(MultiOutputsOf(Store))
           /\ heap' = st.heap
           /\ bufPool' = st.bufPool
           /\ borrowed' = st.borrowed
    /\ pc' = "done"
    /\ UNCHANGED <<adapter, h, in, start, states, got, calls, rdrPool, mapPool,
                    invocations, peak, dirtied>>

NextMulti == MultiProcessLogs \/ MultiLoop \/ MultiAssemble

\* ProcessLogs returns r to its caller, who may invoke it again; the pools
\* are package variables and stay as the invocation left them.
MultiReturn ==
    /\ adapter = "multi" /\ pc = "done"
    /\ invocations < MaxInvocations
    /\ pc' = "idle"
    /\ UNCHANGED <<adapter, h, in, start, states, heap, bufPool, got, borrowed,
                    rdrPool, mapPool, r, calls, invocations, peak, dirtied, args, ret, encPool, loc>>

---------------------------------------------------------------------------
(* Sink keys on their own: the key function applied to two descriptors *)

\* Stands for the byte 0x00 in a name or prefix.
NUL == "~"
NameBytes == {"a", NUL}

RECURSIVE StringsUpTo(_, _)
\* The strings of at most n bytes over the alphabet S.
StringsUpTo(S, n) ==
    IF n = 0 THEN {""}
    ELSE LET shorter == StringsUpTo(S, n - 1)
         IN  shorter \cup {s \o x : s \in {t \in shorter : Len(t) = n - 1}, x \in S}

Names == StringsUpTo(NameBytes, MaxName)
Prefixes == {None} \cup {Some(x) : x \in Names}

\* The descriptors of the cases sinkKeyFrom recognises.
Descriptors ==
    {SinkS3(n, x) : n \in Names, x \in Prefixes}
    \cup {SinkFile(n) : n \in Names}
    \cup {SinkBlackhole(n) : n \in Names}
    \cup {SinkDefault}

EmptyStore ==
    [states |-> EmptyStates, heap |-> <<>>, bufPool |-> {}, got |-> {}, borrowed |-> {}]

\* sinkKeyFrom on both descriptors, the buckets the two keys get in a
\* fresh states map, and the outputs built from those buckets.
MultiKeys ==
    /\ adapter = "multi" /\ pc = "keys"
    /\ LET k1 == sinkKeyFrom(args[1])
           k2 == sinkKeyFrom(args[2])
           st == Bucket(Bucket(EmptyStore, k1.key), k2.key)
       IN  ret' = [keys |-> <<k1, k2>>,
                   states |-> st.states,
                   outputs |-> MultiOutputsOf(st)]
    /\ pc' = "keyed"
    /\ UNCHANGED <<adapter, h, in, start, states, heap, bufPool, got, borrowed,
                    rdrPool, mapPool, r, calls, invocations, peak, dirtied, args,
                    encPool, loc>>

---------------------------------------------------------------------------
(* zeek: examples/zeek/wrapper.go, Wire *)

\* The input is a stream of JSON texts; the model keeps it as the sequence
\* of its top-level values: "obj" is the object {"k":0}, "bad" is a text
\* that is no JSON value.
ZeekFrames == {"obj", "bad"}
ZeekInputs == SeqsUpTo(ZeekFrames, MaxIn)

DecodeError == "json: invalid character"

\* Mutant: a malformed value ends the loop like the end of the input.
ZeekDecodeBadAsEof(input, pos, m) ==
    IF pos >= Len(input) \/ input[pos + 1] = "bad" THEN [status |-> "eof", m |-> m]
    ELSE [status |-> "ok", m |-> m \cup {"k"}]

\* Mutant: io.EOF is reported like any other decode error.
ZeekDecodeEofAsErr(input, pos, m) ==
    IF pos >= Len(input) \/ input[pos + 1] = "bad" THEN [status |-> "err", m |-> m]
    ELSE [status |-> "ok", m |-> m \cup {"k"}]

\* dec.Decode(&m) with pos values already consumed: io.EOF at the end of
\* the input, an error on a malformed value (m is left as it was), else the
\* keys of the decoded object are added to m.
ZeekDecode(input, pos, m) ==
    IF pos >= Len(input) THEN [status |-> "eof", m |-> m]
    ELSE IF input[pos + 1] = "bad" THEN [status |-> "err", m |-> m]
    ELSE [status |-> "ok", m |-> m \cup {"k"}]

\* json.Marshal of a map[string]any with the given keys.
MarshalMap(m) ==
    [bytes |-> <<"{">> \o (IF "k" \in m THEN <<"\"k\":0">> ELSE <<>>) \o <<"}">>,
     err |-> ""]

\* st.enc.Encode(out.Data): Data is a Go value, or "m", the very map that
\* was passed to the handler, encoded as it is when Encode runs.
ZeekEncode(data, m) ==
    LET e == IF data = "m" THEN MarshalMap(m) ELSE Marshal(data)
    IN  IF e.err # "" THEN e ELSE [bytes |-> e.bytes \o <<NL>>, err |-> ""]

ZeekData == GoValues \cup {"m"}

\* What h.ProcessLog may return to the zeek adapter.
ZeekOutputs ==
    {[kind |-> "out", sinks |-> s, data |-> "0"] : s \in SinkLists}
    \cup {[kind |-> "out", sinks |-> s, data |-> d] :
            s \in {<<>>, <<S3("out", NilPtr), SinkFile("out")>>}, d \in ZeekData}

ZeekHandler ==
    {[kind |-> "err", sinks |-> <<>>, data |-> "0"],
     [kind |-> "nil", sinks |-> <<>>, data |-> "0"]} \cup ZeekOutputs

\* The key built for a sink inside the loop over out.Sinks.
ZeekSinkKey(s) ==
    IF s.tag = "s3"
        THEN [key |-> [name |-> s.name, prefix |-> s.prefix, sinkType |-> "s3"], err |-> ""]
    ELSE IF s.tag = "file"
        THEN [key |-> [name |-> s.name, prefix |-> None, sinkType |-> "file"], err |-> ""]
    ELSE [key |-> ZeroKey, err |-> "unknown sink type"]

DefaultKey == [name |-> "", prefix |-> None, sinkType |-> "default"]

\* Look up or create the bucket of k and encode data into it.
ZeekAppend(st, k, data, m) ==
    LET st1 == Bucket(st, k)
        b   == st1.states[k]
        e   == ZeekEncode(data, m)
    IN  IF e.err # "" THEN [st |-> st1, err |-> e.err]
        ELSE [st |-> [st1 EXCEPT !.heap[b] = @ \o e.bytes], err |-> ""]

RECURSIVE ZeekRouteSinks(_, _, _, _)
\* for _, s := range out.Sinks { ... }
ZeekRouteSinks(st, sinks, data, m) ==
    IF sinks = <<>> THEN [st |-> st, err |-> ""]
    ELSE LET k == ZeekSinkKey(Head(sinks))
         IN  IF k.err # "" THEN [st |-> st, err |-> k.err]
             ELSE LET a == ZeekAppend(st, k.key, data, m)
                  IN  IF a.err # "" THEN a
                      ELSE ZeekRouteSinks(a.st, Tail(sinks), data, m)

\* The body of the decode loop after h.ProcessLog returned out and the
\* scratch map, now m, was cleared.
ZeekRoute(st, out, m) ==
    IF out.kind = "err" THEN [st |-> st, err |-> HandlerError]
    ELSE IF out.kind = "nil" THEN [st |-> st, err |-> ""]
    ELSE IF Len(out.sinks) = 0 THEN ZeekAppend(st, DefaultKey, out.data, m)
    ELSE ZeekRouteSinks(st, out.sinks, out.data, m)

ZeekSinkOf(k) ==
    CASE k.sinkType = "default" -> SinkDefault
      [] k.sinkType = "s3"      -> SinkS3(k.name, k.prefix)
      [] k.sinkType = "file"    -> SinkFile(k.name)

\* Mutant: Get hands out a map and leaves it in the pool as well.
MapPoolKeep == mapPool

\* mapPool.Get() followed by the delete loop: the pool without the map taken.
MapPoolRest == IF mapPool = <<>> THEN <<>> ELSE SubSeq(mapPool, 1, Len(mapPool) - 1)

\* Mutant: the map keeps its keys.
ClearMapKeeps(m) == m

\* clear(m)
ClearMap(m) == {}

\* ProcessLogs up to the decode loop: the reader is taken and reset.
ZeekProcessLogs ==
    /\ adapter = "zeek" /\ pc = "idle"
    /\ UNCHANGED <<args, ret, encPool, loc>>
    /\ \E input \in ZeekInputs : in' = input
    /\ rdrPool' = IF rdrPool = <<>> THEN <<>> ELSE SubSeq(rdrPool, 1, Len(rdrPool) - 1)
    /\ pc' = "loop"
    /\ start' = 0
    /\ states' = EmptyStates
    /\ r' = ZeroResult
    /\ calls' = <<>>
    /\ got' = {}
    /\ invocations' = invocations + 1
    /\ UNCHANGED <<adapter, h, heap, bufPool, borrowed, mapPool, peak, dirtied>>

\* One iteration of the decode loop, up to its break, return or next turn.
\* A return runs the deferred rdrPool.Put(rdr).
ZeekLoop ==
    /\ adapter = "zeek" /\ pc = "loop"
    /\ UNCHANGED <<args, ret, encPool, loc>>
    /\ LET d == ZeekDecode(in, start, {})
       IN  IF d.status = "eof"
           THEN /\ mapPool' = Append(MapPoolRest, d.m)
                /\ pc' = "assemble"
                /\ UNCHANGED <<start, states, heap, bufPool, got, borrowed, rdrPool, r, calls,
                                peak, dirtied>>
           ELSE IF d.status = "err"
           THEN /\ r' = SetErr(DecodeError)
                /\ mapPool' = Append(MapPoolRest, d.m)
                /\ rdrPool' = Append(rdrPool, in)
                /\ pc' = "done"
                /\ UNCHANGED <<start, states, heap, bufPool, got, borrowed, calls,
                                peak, dirtied>>
           ELSE \E out \in ZeekHandler :
                LET m   == ClearMap(d.m)
                    res == ZeekRoute(Store, out, m)
                IN  /\ calls' = Append(calls, [seg |-> in[start + 1], out |-> out])
                    /\ mapPool' = Append(MapPoolRest, m)
                    /\ states' = res.st.states
                    /\ heap' = res.st.heap
                    /\ bufPool' = res.st.bufPool
                    /\ got' = res.st.got
                    /\ borrowed' = res.st.borrowed
                    /\ peak' = Peak(res.st)
                    /\ dirtied' = Dirtied(res.st)
                    /\ start' = start + 1
                    /\ IF res.err # ""
                       THEN /\ r' = SetErr(res.err)
                            /\ rdrPool' = Append(rdrPool, in)
                            /\ pc' = "done"
                       ELSE /\ r' = r
                            /\ rdrPool' = rdrPool
                            /\ pc' = "loop"
    /\ UNCHANGED <<adapter, h, in, invocations>>

ZeekOutputsOf(st) ==
    {[sink |-> ZeekSinkOf(k), data |-> st.heap[st.states[k]], buf |-> st.states[k]] :
        k \in DOMAIN st.states}

\* After the loop: build the outputs, release the buffers, SetOK, and the
\* deferred rdrPool.Put(rdr).
ZeekAssemble ==
    /\ adapter = "zeek" /\ pc = "assemble"
    /\ UNCHANGED <<args, ret, encPool, loc>>
    /\ LET st == ReleaseAll(Store, {states[k] : k \in DOMAIN states})
       IN  /\ r' = SetOK(ZeekOutputsOf(Store))
           /\ heap' = st.heap
           /\ bufPool' = st.bufPool
           /\ borrowed' = st.borrowed
    /\ rdrPool' = Append(rdrPool, in)
    /\ pc' = "done"
    /\ UNCHANGED <<adapter, h, in, start, states, got, calls, mapPool,
                    invocations, peak, dirtied>>

NextZeek == ZeekProcessLogs \/ ZeekLoop \/ ZeekAssemble

---------------------------------------------------------------------------
(* ocsf: examples/ocsf-go/wrapper.go, Wire and processBatch *)

LineBytes == {"a", "b"}
Lines == SeqsUpTo(LineBytes, MaxLine)

\* The input made of the lines l1 and l2, with or without a final newline.
TwoLines(l1, l2, trailing) ==
    l1 \o <<NL>> \o l2 \o (IF trailing THEN <<NL>> ELSE <<>>)

OcsfInputs ==
    IF h = "echo"
    THEN {TwoLines(l1, l2, t) : l1 \in Lines, l2 \in Lines, t \in BOOLEAN}
    ELSE MultiInputs

\* The handler that returns its line unchanged as the single item, for the
\* sink S3("out", nil).
EchoHandler(seg) ==
    [kind |-> "out", sinks |-> <<S3("out", NilPtr)>>, items |-> <<seg>>]

\* Items are json.RawMessage: byte strings written as they are.
RawItems == {<<>>, <<"a">>}

OcsfHandler(seg) ==
    IF h = "echo" THEN {EchoHandler(seg)}
    ELSE {[kind |-> "err", sinks |-> <<>>, items |-> <<>>],
          [kind |-> "nil", sinks |-> <<>>, items |-> <<>>]}
         \cup {[kind |-> "out", sinks |-> s, items |-> i] :
                 s \in SinkLists, i \in SeqsUpTo(RawItems, 1)}

OcsfSinkKey(s) ==
    IF s.tag = "s3"
        THEN [key |-> [name |-> s.name, prefix |-> s.prefix], err |-> ""]
    ELSE [key |-> [name |-> "", prefix |-> None], err |-> "unknown sink type"]

RECURSIVE WriteItems(_, _)
\* Mutant: the newline after an item is not written.
WriteItemsNoNewline(data, items) ==
    IF items = <<>> THEN data
    ELSE WriteItems(data \o Head(items), Tail(items))

\* for _, item := range out.Items { st.buf.Write(item); st.buf.WriteByte('\n') }
WriteItems(data, items) ==
    IF items = <<>> THEN data
    ELSE WriteItems(data \o Head(items) \o <<NL>>, Tail(items))

RECURSIVE OcsfRouteSinks(_, _, _)
OcsfRouteSinks(st, sinks, items) ==
    IF sinks = <<>> THEN [st |-> st, err |-> ""]
    ELSE LET k == OcsfSinkKey(Head(sinks))
         IN  IF k.err # "" THEN [st |-> st, err |-> k.err]
             ELSE LET st1 == Bucket(st, k.key)
                      b   == st1.states[k.key]
                  IN  OcsfRouteSinks([st1 EXCEPT !.heap[b] = WriteItems(@, items)],
                                     Tail(sinks), items)

OcsfProcessBatch(st, out) ==
    IF out.kind = "err" THEN [st |-> st, err |-> HandlerError]
    ELSE IF out.kind = "nil" \/ Len(out.sinks) = 0 THEN [st |-> st, err |-> ""]
    ELSE OcsfRouteSinks(st, out.sinks, out.items)

OcsfProcessLogs ==
    /\ adapter = "ocsf" /\ pc = "idle"
    /\ UNCHANGED <<args, ret, encPool, loc>>
    /\ \E input \in OcsfInputs :
        /\ in' = input
        /\ IF Len(input) = 0
           THEN pc' = "done"
           ELSE pc' = "loop"
    /\ start' = 0
    /\ states' = EmptyStates
    /\ r' = ZeroResult
    /\ calls' = <<>>
    /\ got' = {}
    /\ invocations' = invocations + 1
    /\ UNCHANGED <<adapter, h, heap, bufPool, borrowed, rdrPool, mapPool, peak, dirtied>>

OcsfLoop ==
    /\ adapter = "ocsf" /\ pc = "loop" /\ start < Len(in)
    /\ UNCHANGED <<args, ret, encPool, loc>>
    /\ LET i   == IndexByte(Slice(in, start, Len(in)), NL)
           seg == IF i < 0 THEN Slice(in, start, Len(in)) ELSE Slice(in, start, start + i)
       IN  \E out \in OcsfHandler(seg) :
            LET res == OcsfProcessBatch(Store, out)
            IN  /\ calls' = Append(calls, [seg |-> seg, out |-> out])
                /\ states' = res.st.states
                /\ heap' = res.st.heap
                /\ bufPool' = res.st.bufPool
                /\ got' = res.st.got
                /\ borrowed' = res.st.borrowed
                /\ peak' = Peak(res.st)
                /\ dirtied' = Dirtied(res.st)
                /\ IF res.err # ""
                   THEN /\ r' = SetErr(res.err)
                        /\ pc' = "done"
                        /\ start' = start
                   ELSE /\ r' = r
                        /\ start' = IF i < 0 THEN start ELSE start + i + 1
                        /\ pc' = IF i < 0 \/ start + i + 1 >= Len(in)
                                 THEN "assemble" ELSE "loop"
    /\ UNCHANGED <<adapter, h, in, rdrPool, mapPool, invocations>>

\* Each output carries the one-element sink list built from the bucket's key.
OcsfOutputsOf(st) ==
    {[sink |-> SinkS3(k.name, k.prefix), data |-> st.heap[st.states[k]],
      buf |-> st.states[k]] : k \in DOMAIN st.states}

OcsfAssemble ==
    /\ adapter = "ocsf" /\ pc = "assemble"
    /\ UNCHANGED <<args, ret, encPool, loc>>
    /\ LET st == ReleaseAll(Store, {states[k] : k \in DOMAIN states})
       IN  /\ r' = SetOK(OcsfOutputsOf(Store))
           /\ heap' = st.heap
           /\ bufPool' = st.bufPool
           /\ borrowed' = st.borrowed
    /\ pc' = "done"
    /\ UNCHANGED <<adapter, h, in, start, states, got, calls, rdrPool, mapPool,
                    invocations, peak, dirtied>>

NextOcsf == OcsfProcessLogs \/ OcsfLoop \/ OcsfAssemble

---------------------------------------------------------------------------
(* s3only: unnamed/part_005, Wire (the zeek decode loop, S3 sinks only) *)

\* k = sinkKey{name: s3.Name, prefix: s3.KeyPrefix}, or the error.
S3OnlySinkKey(s) ==
    IF s.tag = "s3"
        THEN [key |-> [name |-> s.name, prefix |-> s.prefix], err |-> ""]
    ELSE [key |-> [name |-> "", prefix |-> None], err |-> "unknown sink type"]

RECURSIVE S3OnlyRouteSinks(_, _, _, _)
\* for _, s := range out.Sinks { ... }
S3OnlyRouteSinks(st, sinks, data, m) ==
    IF sinks = <<>> THEN [st |-> st, err |-> ""]
    ELSE LET k == S3OnlySinkKey(Head(sinks))
         IN  IF k.err # "" THEN [st |-> st, err |-> k.err]
             ELSE LET a == ZeekAppend(st, k.key, data, m)
                  IN  IF a.err # "" THEN a
                      ELSE S3OnlyRouteSinks(a.st, Tail(sinks), data, m)

\* The body of the decode loop after h.ProcessLog returned out and the
\* scratch map, now m, was cleared.
S3OnlyRoute(st, out, m) ==
    IF out.kind = "err" THEN [st |-> st, err |-> HandlerError]
    ELSE IF out.kind = "nil" \/ Len(out.sinks) = 0 THEN [st |-> st, err |-> ""]
    ELSE S3OnlyRouteSinks(st, out.sinks, out.data, m)

S3OnlyProcessLogs ==
    /\ adapter = "s3only" /\ pc = "idle"
    /\ UNCHANGED <<args, ret, encPool, loc>>
    /\ \E input \in ZeekInputs : in' = input
    /\ rdrPool' = IF rdrPool = <<>> THEN <<>> ELSE SubSeq(rdrPool, 1, Len(rdrPool) - 1)
    /\ pc' = "loop"
    /\ start' = 0
    /\ states' = EmptyStates
    /\ r' = ZeroResult
    /\ calls' = <<>>
    /\ got' = {}
    /\ invocations' = invocations + 1
    /\ UNCHANGED <<adapter, h, heap, bufPool, borrowed, mapPool, peak, dirtied>>

\* One iteration of the decode loop, up to its break, return or next turn.
S3OnlyLoop ==
    /\ adapter = "s3only" /\ pc = "loop"
    /\ UNCHANGED <<args, ret, encPool, loc>>
    /\ LET d == ZeekDecode(in, start, {})
       IN  IF d.status = "eof"
           THEN /\ mapPool' = Append(MapPoolRest, d.m)
                /\ pc' = "assemble"
                /\ UNCHANGED <<start, states, heap, bufPool, got, borrowed, rdrPool, r, calls,
                                peak, dirtied>>
           ELSE IF d.status = "err"
           THEN /\ r' = SetErr(DecodeError)
                /\ mapPool' = Append(MapPoolRest, d.m)
                /\ rdrPool' = Append(rdrPool, in)
                /\ pc' = "done"
                /\ UNCHANGED <<start, states, heap, bufPool, got, borrowed, calls,
                                peak, dirtied>>
           ELSE \E out \in ZeekHandler :
                LET m   == ClearMap(d.m)
                    res == S3OnlyRoute(Store, out, m)
                IN  /\ calls' = Append(calls, [seg |-> in[start + 1], out |-> out])
                    /\ mapPool' = Append(MapPoolRest, m)
                    /\ states' = res.st.states
                    /\ heap' = res.st.heap
                    /\ bufPool' = res.st.bufPool
                    /\ got' = res.st.got
                    /\ borrowed' = res.st.borrowed
                    /\ peak' = Peak(res.st)
                    /\ dirtied' = Dirtied(res.st)
                    /\ start' = start + 1
                    /\ IF res.err # ""
                       THEN /\ r' = SetErr(res.err)
                            /\ rdrPool' = Append(rdrPool, in)
                            /\ pc' = "done"
                       ELSE /\ r' = r
                            /\ rdrPool' = rdrPool
                            /\ pc' = "loop"
    /\ UNCHANGED <<adapter, h, in, invocations>>

\* Each output carries the one-element sink list built from the bucket's key.
S3OnlyOutputsOf(st) ==
    {[sink |-> SinkS3(k.name, k.prefix), data |-> st.heap[st.states[k]],
      buf |-> st.states[k]] : k \in DOMAIN st.states}

S3OnlyAssemble ==
    /\ adapter = "s3only" /\ pc = "assemble"
    /\ UNCHANGED <<args, ret, encPool, loc>>
    /\ LET st == ReleaseAll(Store, {states[k] : k \in DOMAIN states})
       IN  /\ r' = SetOK(S3OnlyOutputsOf(Store))
           /\ heap' = st.heap
           /\ bufPool' = st.bufPool
           /\ borrowed' = st.borrowed
    /\ rdrPool' = Append(rdrPool, in)
    /\ pc' = "done"
    /\ UNCHANGED <<adapter, h, in, start, states, got, calls, mapPool,
                    invocations, peak, dirtied>>

NextS3Only == S3OnlyProcessLogs \/ S3OnlyLoop \/ S3OnlyAssemble

---------------------------------------------------------------------------
(* strkey: the Go adapter of assets/py_Agents.md, Wire with string keys *)

\* getKeyAndSink: the name, or the name, a NUL byte and the prefix.
getKeyAndSink(s) ==
    IF s.tag = "s3"
    THEN [key    |-> IF s.prefix.isSome THEN s.name \o NUL \o s.prefix.some ELSE s.name,
          single |-> SinkS3(s.name, s.prefix),
          ok     |-> TRUE]
    ELSE [key |-> "", single |-> <<>>, ok |-> FALSE]

\* buckets[key], created with the sink of the descriptor at hand and a
\* byte slice of its own when missing.
StrKeyBucket(st, g) ==
    IF g.key \in DOMAIN st.states THEN st
    ELSE LET b == NewBuffer(st.heap)
         IN  [st EXCEPT !.heap = @ @@ (b :> <<>>),
                        !.states = @ @@ (g.key :> [buf |-> b, sinks |-> g.single])]

RECURSIVE StrKeyRouteSinks(_, _, _, _)
\* for _, s := range out.Sinks { ... }: a sink getKeyAndSink does not know
\* is passed over.
StrKeyRouteSinks(st, sinks, data, m) ==
    IF sinks = <<>> THEN [st |-> st, err |-> ""]
    ELSE LET g == getKeyAndSink(Head(sinks))
         IN  IF ~g.ok THEN StrKeyRouteSinks(st, Tail(sinks), data, m)
             ELSE LET st1 == StrKeyBucket(st, g)
                      b   == st1.states[g.key].buf
                      e   == ZeekEncode(data, m)
                  IN  IF e.err # "" THEN [st |-> st1, err |-> e.err]
                      ELSE StrKeyRouteSinks([st1 EXCEPT !.heap[b] = @ \o e.bytes],
                                            Tail(sinks), data, m)

StrKeyRoute(st, out, m) ==
    IF out.kind = "err" THEN [st |-> st, err |-> HandlerError]
    ELSE IF out.kind = "nil" \/ Len(out.sinks) = 0 THEN [st |-> st, err |-> ""]
    ELSE StrKeyRouteSinks(st, out.sinks, out.data, m)

StrKeyProcessLogs ==
    /\ adapter = "strkey" /\ pc = "idle"
    /\ UNCHANGED <<args, ret, encPool, loc>>
    /\ \E input \in ZeekInputs : in' = input
    /\ rdrPool' = IF rdrPool = <<>> THEN <<>> ELSE SubSeq(rdrPool, 1, Len(rdrPool) - 1)
    /\ pc' = "loop"
    /\ start' = 0
    /\ states' = EmptyStates
    /\ r' = ZeroResult
    /\ calls' = <<>>
    /\ got' = {}
    /\ invocations' = invocations + 1
    /\ UNCHANGED <<adapter, h, heap, bufPool, borrowed, mapPool, peak, dirtied>>

\* One iteration of the decode loop, up to its break, return or next turn.
StrKeyLoop ==
    /\ adapter = "strkey" /\ pc = "loop"
    /\ UNCHANGED <<args, ret, encPool, loc>>
    /\ LET d == ZeekDecode(in, start, {})
       IN  IF d.status = "eof"
           THEN /\ mapPool' = Append(MapPoolRest, d.m)
                /\ pc' = "assemble"
                /\ UNCHANGED <<start, states, heap, rdrPool, r, calls>>
           ELSE IF d.status = "err"
           THEN /\ r' = SetErr(DecodeError)
                /\ mapPool' = Append(MapPoolRest, d.m)
                /\ rdrPool' = Append(rdrPool, in)
                /\ pc' = "done"
                /\ UNCHANGED <<start, states, heap, calls>>
           ELSE \E out \in ZeekHandler :
                LET m   == ClearMap(d.m)
                    res == StrKeyRoute(Store, out, m)
                IN  /\ calls' = Append(calls, [seg |-> in[start + 1], out |-> out])
                    /\ mapPool' = Append(MapPoolRest, m)
                    /\ states' = res.st.states
                    /\ heap' = res.st.heap
                    /\ start' = start + 1
                    /\ IF res.err # ""
                       THEN /\ r' = SetErr(res.err)
                            /\ rdrPool' = Append(rdrPool, in)
                            /\ pc' = "done"
                       ELSE /\ r' = r
                            /\ rdrPool' = rdrPool
                            /\ pc' = "loop"
    /\ UNCHANGED <<adapter, h, in, bufPool, got, borrowed, invocations, peak, dirtied>>

\* Each output carries the sink list its bucket was created with.
StrKeyOutputsOf(st) ==
    {[sink |-> st.states[k].sinks, data |-> st.heap[st.states[k].buf],
      buf |-> st.states[k].buf] : k \in DOMAIN st.states}

\* After the loop: build the outputs, SetOK, and the deferred rdrPool.Put.
StrKeyAssemble ==
    /\ adapter = "strkey" /\ pc = "assemble"
    /\ UNCHANGED <<args, ret, encPool, loc>>
    /\ r' = SetOK(StrKeyOutputsOf(Store))
    /\ rdrPool' = Append(rdrPool, in)
    /\ pc' = "done"
    /\ UNCHANGED <<adapter, h, in, start, states, heap, bufPool, got, borrowed,
                    calls, mapPool, invocations, peak, dirtied>>

NextStrKey == StrKeyProcessLogs \/ StrKeyLoop \/ StrKeyAssemble

\* getKeyAndSink on both descriptors, and the buckets the sinks it accepts
\* get in a fresh buckets map.
StrKeyKeys ==
    /\ adapter = "strkey" /\ pc = "keys"
    /\ LET g1 == getKeyAndSink(args[1])
           g2 == getKeyAndSink(args[2])
           s1 == IF g1.ok THEN StrKeyBucket(EmptyStore, g1) ELSE EmptyStore
           s2 == IF g2.ok THEN StrKeyBucket(s1, g2) ELSE s1
       IN  ret' = [keys |-> <<g1, g2>>, states |-> s2.states]
    /\ pc' = "keyed"
    /\ UNCHANGED <<adapter, h, in, start, states, heap, bufPool, got, borrowed,
                    rdrPool, mapPool, r, calls, invocations, peak, dirtied, args,
                    encPool, loc>>

---------------------------------------------------------------------------
(* mapper: unnamed/part_000 lines 18-277, the Zeek mapper's ProcessLogs *)

\* A log.Logview, by what the mapper reads from it: whether its "ts" parses
\* as RFC3339, and its uid, which stands for the rest of the record.
Views ==
    {[ts |-> "ok", uid |-> "a"], [ts |-> "ok", uid |-> "b"], [ts |-> "bad", uid |-> "a"]}
MapperInputs == SeqsUpTo(Views, MaxIn)

BadTs == "bad ts: parsing time"

\* What enc.Encode(&na) writes for the NetworkActivity built from v: one
\* JSON object and a newline.
MapperLine(v) == <<"{", v.uid, "}", NL>>

\* encPool.Get(): a pooled encoder if there is one, else New(), which makes
\* the encoder over a buffer of its own.
EncPoolGet(hp) ==
    IF encPool # {}
    THEN [heap |-> hp, enc |-> CHOOSE x \in encPool : \A y \in encPool : y <= x]
    ELSE LET b == NewBuffer(hp) IN [heap |-> hp @@ (b :> <<>>), enc |-> b]

\* ProcessLogs up to the loop: buf is taken and Reset, enc is taken.
MapperProcessLogs ==
    /\ adapter = "mapper" /\ pc = "idle"
    /\ \E input \in MapperInputs :
        /\ in' = input
        /\ pc' = IF Len(input) = 0 THEN "assemble" ELSE "loop"
    /\ LET g == PoolGet(Store)
           e == EncPoolGet(BufReset(g.st.heap, g.buf))
       IN  /\ heap' = e.heap
           /\ bufPool' = g.st.bufPool
           /\ got' = {g.buf}
           /\ borrowed' = g.st.borrowed
           /\ encPool' = encPool \ {e.enc}
           /\ loc' = [buf |-> g.buf, enc |-> e.enc]
           /\ peak' = IF peak < 1 THEN 1 ELSE peak
    /\ start' = 0
    /\ r' = [isErr |-> FALSE, ok |-> <<>>, err |-> ""]
    /\ invocations' = invocations + 1
    /\ UNCHANGED <<adapter, h, states, rdrPool, mapPool, calls, dirtied, args, ret>>

\* One turn of `for idx := range items`; a return runs the deferred
\* encPool.Put(enc) and bufPool.Put(buf).
MapperLoop ==
    /\ adapter = "mapper" /\ pc = "loop" /\ start < Len(in)
    /\ LET v == in[start + 1]
       IN  IF v.ts = "bad"
           THEN /\ r' = SetErr(BadTs)
                /\ encPool' = encPool \cup {loc.enc}
                /\ bufPool' = bufPool \cup {loc.buf}
                /\ borrowed' = borrowed \ {loc.buf}
                /\ pc' = "done"
                /\ UNCHANGED <<heap, start>>
           ELSE /\ heap' = [heap EXCEPT ![loc.enc] = @ \o MapperLine(v)]
                /\ start' = start + 1
                /\ pc' = IF start + 1 >= Len(in) THEN "assemble" ELSE "loop"
                /\ UNCHANGED <<r, encPool, bufPool, borrowed>>
    /\ UNCHANGED <<adapter, h, in, states, got, rdrPool, mapPool, calls,
                    invocations, peak, dirtied, args, ret, loc>>

\* After the loop: res.SetOK(cm.ToList(buf.Bytes())), then the deferred Puts.
MapperAssemble ==
    /\ adapter = "mapper" /\ pc = "assemble"
    /\ r' = [isErr |-> FALSE, ok |-> heap[loc.buf], err |-> ""]
    /\ encPool' = encPool \cup {loc.enc}
    /\ bufPool' = bufPool \cup {loc.buf}
    /\ borrowed' = borrowed \ {loc.buf}
    /\ pc' = "done"
    /\ UNCHANGED <<adapter, h, in, start, states, heap, got, rdrPool, mapPool, calls,
                    invocations, peak, dirtied, args, ret, loc>>

\* ProcessLogs has returned; the host may call it again.
MapperReturn ==
    /\ adapter = "mapper" /\ pc = "done"
    /\ invocations < MaxInvocations
    /\ pc' = "idle"
    /\ UNCHANGED <<adapter, h, in, start, states, heap, bufPool, got, borrowed,
                    rdrPool, mapPool, r, calls, invocations, peak, dirtied, args, ret,
                    encPool, loc>>

NextMapper == MapperProcessLogs \/ MapperLoop \/ MapperAssemble \/ MapperReturn

---------------------------------------------------------------------------
(* basic: the Go ProcessLogs of examples/rust-log-processor/build-wasm.sh *)

JsonBytes == {"0", "[", "]"}
BasicInputs == SeqsUpTo(JsonBytes, MaxJson)

RECURSIVE ValidJson(_)
\* Whether json.Unmarshal accepts the text: over these bytes the JSON values
\* are the number 0, the empty array and the array of one value.
ValidJson(s) ==
    \/ s = <<"0">>
    \/ /\ Len(s) >= 2 /\ s[1] = "[" /\ s[Len(s)] = "]"
       /\ Len(s) = 2 \/ ValidJson(SubSeq(s, 2, Len(s) - 1))

\* result.SetOK(struct{}{}) on a result that may hold an error: the result
\* becomes the OK case.
BasicSetOK(res) == [res EXCEPT !.isErr = FALSE, !.ok = {}, !.err = ""]

\* ProcessLogs: Unmarshal, SetErr on an error, then SetOK, return.
BasicProcessLogs ==
    /\ adapter = "basic" /\ pc = "idle"
    /\ \E logs \in BasicInputs :
        /\ in' = logs
        /\ LET r1 == IF ~ValidJson(logs) THEN SetErr(DecodeError) ELSE ZeroResult
           IN  r' = BasicSetOK(r1)
    /\ pc' = "done"
    /\ invocations' = invocations + 1
    /\ UNCHANGED <<adapter, h, start, states, heap, bufPool, got, borrowed, rdrPool,
                    mapPool, calls, peak, dirtied, args, ret, encPool, loc>>

NextBasic == BasicProcessLogs

---------------------------------------------------------------------------
(* Specifications *)

\* bufPool as earlier invocations may have left it: n reset buffers.
PooledInit(n) ==
    /\ heap = [b \in 1..n |-> <<>>]
    /\ bufPool = 1..n

Init ==
    /\ adapter \in {"multi", "zeek"}
    /\ h = "any"
    /\ pc = "idle"
    /\ in = <<>>
    /\ start = 0
    /\ states = EmptyStates
    /\ \E n \in {0, MaxPooled} : PooledInit(n)
    /\ got = {}
    /\ borrowed = {}
    /\ rdrPool = <<>>
    /\ mapPool = <<>>
    /\ r = ZeroResult
    /\ calls = <<>>
    /\ invocations = 0
    /\ peak = 0
    /\ dirtied = {}
    /\ args = <<>>
    /\ ret = <<>>
    /\ encPool = {}
    /\ loc = <<>>

Next == NextMulti \/ NextZeek

Spec == Init /\ [][Next]_vars

\* The Zeek mapper from its construction, both pools empty.
InitMapper ==
    /\ adapter = "mapper"
    /\ h = "any"
    /\ pc = "idle"
    /\ in = <<>>
    /\ start = 0
    /\ states = EmptyStates
    /\ PooledInit(0)
    /\ got = {}
    /\ borrowed = {}
    /\ rdrPool = <<>>
    /\ mapPool = <<>>
    /\ r = ZeroResult
    /\ calls = <<>>
    /\ invocations = 0
    /\ peak = 0
    /\ dirtied = {}
    /\ args = <<>>
    /\ ret = <<>>
    /\ encPool = {}
    /\ loc = <<>>

SpecMapper == InitMapper /\ [][NextMapper]_vars

\* The basic processor.
InitBasic ==
    /\ adapter = "basic"
    /\ h = "any"
    /\ pc = "idle"
    /\ in = <<>>
    /\ start = 0
    /\ states = EmptyStates
    /\ PooledInit(0)
    /\ got = {}
    /\ borrowed = {}
    /\ rdrPool = <<>>
    /\ mapPool = <<>>
    /\ r = ZeroResult
    /\ calls = <<>>
    /\ invocations = 0
    /\ peak = 0
    /\ dirtied = {}
    /\ args = <<>>
    /\ ret = <<>>
    /\ encPool = {}
    /\ loc = <<>>

SpecBasic == InitBasic /\ [][NextBasic]_vars

\* One adapter of Spec on its own.
InitZeek == Init /\ adapter = "zeek"
SpecZeek == InitZeek /\ [][NextZeek]_vars

InitMulti == Init /\ adapter = "multi"
SpecMulti == InitMulti /\ [][NextMulti]_vars

\* The multi adapter from its construction, bufPool empty, invoked again and
\* again with a handler of few outputs.
InitSeq ==
    /\ adapter = "multi"
    /\ h = "few"
    /\ pc = "idle"
    /\ in = <<>>
    /\ start = 0
    /\ states = EmptyStates
    /\ PooledInit(0)
    /\ got = {}
    /\ borrowed = {}
    /\ rdrPool = <<>>
    /\ mapPool = <<>>
    /\ r = ZeroResult
    /\ calls = <<>>
    /\ invocations = 0
    /\ peak = 0
    /\ dirtied = {}
    /\ args = <<>>
    /\ ret = <<>>
    /\ encPool = {}
    /\ loc = <<>>

NextSeq == NextMulti \/ MultiReturn

SpecSeq == InitSeq /\ [][NextSeq]_vars

\* ProcessLogs runs on one thread and the handler always returns: a started
\* invocation keeps taking steps.  The host need not call again.
SpecSeqFair == SpecSeq /\ WF_vars(NextMulti)

\* The adapters that know S3 sinks only, with any handler.
InitS3 ==
    /\ adapter \in {"ocsf", "s3only"}
    /\ h = "any"
    /\ pc = "idle"
    /\ in = <<>>
    /\ start = 0
    /\ states = EmptyStates
    /\ \E n \in {0, MaxPooled} : PooledInit(n)
    /\ got = {}
    /\ borrowed = {}
    /\ rdrPool = <<>>
    /\ mapPool = <<>>
    /\ r = ZeroResult
    /\ calls = <<>>
    /\ invocations = 0
    /\ peak = 0
    /\ dirtied = {}
    /\ args = <<>>
    /\ ret = <<>>
    /\ encPool = {}
    /\ loc = <<>>

NextS3 == NextOcsf \/ NextS3Only

SpecS3 == InitS3 /\ [][NextS3]_vars

\* The string-keyed adapter with any handler; it has no buffer pool.
InitStrKey ==
    /\ adapter = "strkey"
    /\ h = "any"
    /\ pc = "idle"
    /\ in = <<>>
    /\ start = 0
    /\ states = EmptyStates
    /\ PooledInit(0)
    /\ got = {}
    /\ borrowed = {}
    /\ rdrPool = <<>>
    /\ mapPool = <<>>
    /\ r = ZeroResult
    /\ calls = <<>>
    /\ invocations = 0
    /\ peak = 0
    /\ dirtied = {}
    /\ args = <<>>
    /\ ret = <<>>
    /\ encPool = {}
    /\ loc = <<>>

SpecStrKey == InitStrKey /\ [][NextStrKey]_vars

\* Two recognised descriptors, about to be keyed.
InitKeys ==
    /\ adapter \in {"multi", "strkey"}
    /\ h = "any"
    /\ pc = "keys"
    /\ in = <<>>
    /\ start = 0
    /\ states = EmptyStates
    /\ PooledInit(0)
    /\ got = {}
    /\ borrowed = {}
    /\ rdrPool = <<>>
    /\ mapPool = <<>>
    /\ r = ZeroResult
    /\ calls = <<>>
    /\ invocations = 0
    /\ peak = 0
    /\ dirtied = {}
    /\ args \in Descriptors \X Descriptors
    /\ ret = <<>>
    /\ encPool = {}
    /\ loc = <<>>

NextKeys == MultiKeys \/ StrKeyKeys

SpecKeys == InitKeys /\ [][NextKeys]_vars

\* The ocsf adapter wired with the echo handler, fed two-line inputs.
InitOcsfEcho ==
    /\ adapter = "ocsf"
    /\ h = "echo"
    /\ pc = "idle"
    /\ in = <<>>
    /\ start = 0
    /\ states = EmptyStates
    /\ \E n \in {0, MaxPooled} : PooledInit(n)
    /\ got = {}
    /\ borrowed = {}
    /\ rdrPool = <<>>
    /\ mapPool = <<>>
    /\ r = ZeroResult
    /\ calls = <<>>
    /\ invocations = 0
    /\ peak = 0
    /\ dirtied = {}
    /\ args = <<>>
    /\ ret = <<>>
    /\ encPool = {}
    /\ loc = <<>>

SpecOcsfEcho == InitOcsfEcho /\ [][NextOcsf]_vars

\* The two adapters that share the newline loop, each with its own handlers.
InitLines == InitSeq \/ InitOcsfEcho
NextLines == NextMulti \/ NextOcsf
SpecLines == InitLines /\ [][NextLines]_vars

---------------------------------------------------------------------------
(* What the handler calls of an invocation ask for, read off the history *)

KnownTags == {"s3", "file", "blackhole", "default"}

\* The values an output carries, whichever adapter it was returned to.
ItemsOf(out) == IF adapter = "zeek" THEN <<out.data>> ELSE out.items

Unencodable(v) == v = "chan"

HasUnencodable(out) ==
    out.kind = "out" /\ \E i \in 1..Len(ItemsOf(out)) : Unencodable(ItemsOf(out)[i])

\* The descriptors an output is meant for: its sinks, or the default sink.
TargetsOf(out) == IF out.sinks = <<>> THEN <<SinkDefault>> ELSE out.sinks

RECURSIVE SerialisedItems(_)
SerialisedItems(items) ==
    IF items = <<>> THEN <<>>
    ELSE Encode(Head(items)).bytes \o SerialisedItems(Tail(items))

\* The bytes one copy of an output adds to a bucket.
Serialised(out) ==
    IF adapter = "zeek" THEN ZeekEncode(out.data, {}).bytes
    ELSE SerialisedItems(out.items)

RECURSIVE Repeat(_, _)
Repeat(bytes, n) == IF n = 0 THEN <<>> ELSE bytes \o Repeat(bytes, n - 1)

Occurrences(d, sinks) == Cardinality({i \in 1..Len(sinks) : sinks[i] = d})

\* The bytes an output adds to the bucket of descriptor d.
Contribution(out, d) ==
    IF out.kind # "out" THEN <<>>
    ELSE Repeat(Serialised(out), Occurrences(d, TargetsOf(out)))

RECURSIVE ExpectedRange(_, _, _)
\* The contributions of calls lo..hi to descriptor d, in call order.
ExpectedRange(lo, hi, d) ==
    IF lo > hi THEN <<>>
    ELSE Contribution(calls[lo].out, d) \o ExpectedRange(lo + 1, hi, d)

Succeeded == pc = "done" /\ ~r.isErr

HasEntry(d) == \E e \in r.ok : e.sink = d

\* The payload returned for descriptor d (empty when it has no entry).
PayloadOf(d) ==
    IF HasEntry(d) THEN (CHOOSE e \in r.ok : e.sink = d).data ELSE <<>>

\* Call k reached exactly the descriptors of targets, with one copy each.
RoutedExactlyTo(k, targets) ==
    \A d \in SinkVocab :
        PayloadOf(d) =
            ExpectedRange(1, k - 1, d)
            \o (IF d \in targets THEN Serialised(calls[k].out) ELSE <<>>)
            \o ExpectedRange(k + 1, Len(calls), d)

---------------------------------------------------------------------------
(* Claims *)

\* C1: in the multi-sink adapters (part_000 and zeek), once the handler
\* returns an error on a record, or serialising an item fails, that record
\* is the last one processed and ProcessLogs returns the error result with
\* no output list, however many buckets earlier records filled.
C1_AllOrNothing ==
    adapter \in {"multi", "zeek"} =>
        \A k \in 1..Len(calls) :
            (calls[k].out.kind = "err" \/ HasUnencodable(calls[k].out)) =>
                /\ k = Len(calls)
                /\ pc = "done"
                /\ r.isErr /\ r.err # "" /\ r.ok = {}

C1_Witness ==
    /\ adapter = "multi" /\ pc = "done" /\ r.isErr
    /\ Len(calls) = 2 /\ calls[2].out.kind = "err"
    /\ DOMAIN states # {}
    /\ \E k \in DOMAIN states : heap[states[k]] # <<>>

\* C2: in part_000, an output naming two distinct descriptors A and B puts
\* the same serialised items into A's entry and into B's entry of a
\* successful result, and into no other entry.
C2_FanOut ==
    (adapter = "multi" /\ Succeeded) =>
        \A k \in 1..Len(calls) :
            LET o == calls[k].out
            IN  (o.kind = "out" /\ Len(o.sinks) = 2 /\ o.sinks[1] # o.sinks[2]) =>
                    /\ HasEntry(o.sinks[1]) /\ HasEntry(o.sinks[2])
                    /\ RoutedExactlyTo(k, {o.sinks[1], o.sinks[2]})

C2_Witness ==
    /\ adapter = "multi" /\ Succeeded /\ Len(calls) = 1
    /\ calls[1].out.kind = "out"
    /\ calls[1].out.sinks = <<SinkS3("out", None), SinkFile("out")>>
    /\ calls[1].out.items = <<"s", "0">>
    /\ PayloadOf(SinkS3("out", None)) = <<"\"", "s", "\"", NL, "0", NL>>
    /\ PayloadOf(SinkFile("out")) = <<"\"", "s", "\"", NL, "0", NL>>
    /\ Cardinality(r.ok) = 2

\* The recognised descriptors the calls so far have named or defaulted to.
NamedDescriptors ==
    {d \in SinkVocab : d.tag \in KnownTags /\
        \E k \in 1..Len(calls) :
            calls[k].out.kind = "out" /\ Occurrences(d, TargetsOf(calls[k].out)) > 0}

\* Descriptor d is named by the outputs of at least two records.
NamedTwice(d) ==
    \E i, j \in 1..Len(calls) :
        /\ i < j
        /\ Contribution(calls[i].out, d) # <<>>
        /\ Contribution(calls[j].out, d) # <<>>

\* C3: in part_000 the states map never holds more buckets than distinct
\* descriptors were named, no two buckets share a buffer, outputs of
\* different records with equal descriptors end in the same bucket, and a
\* successful result has no two entries with equal descriptors.
C3_Coalescing ==
    adapter = "multi" =>
        /\ Cardinality(DOMAIN states) <= Cardinality(NamedDescriptors)
        /\ \A k1, k2 \in DOMAIN states : states[k1] = states[k2] => k1 = k2
        /\ \A e1, e2 \in r.ok : e1.sink = e2.sink => e1 = e2
        /\ Succeeded =>
            \A d \in SinkVocab :
                NamedTwice(d) =>
                    /\ Cardinality({e \in r.ok : e.sink = d}) = 1
                    /\ PayloadOf(d) = ExpectedRange(1, Len(calls), d)

C3_Witness ==
    /\ adapter = "multi" /\ Succeeded
    /\ NamedTwice(SinkS3("out", Some("p")))
    /\ Cardinality(r.ok) = 2

\* C4: in part_000 and zeek, a non-nil output with an empty sink list goes
\* to the default bucket and to no other, and the result has an entry that
\* carries the default sink.
C4_DefaultFallback ==
    (adapter \in {"multi", "zeek"} /\ Succeeded) =>
        \A k \in 1..Len(calls) :
            (calls[k].out.kind = "out" /\ calls[k].out.sinks = <<>>) =>
                /\ HasEntry(SinkDefault)
                /\ RoutedExactlyTo(k, {SinkDefault})

C4_Witness ==
    /\ adapter = "zeek" /\ Succeeded /\ Len(calls) = 2
    /\ calls[1].out.kind = "out" /\ calls[1].out.sinks # <<>>
    /\ calls[2].out.kind = "out" /\ calls[2].out.sinks = <<>>
    /\ PayloadOf(SinkDefault) = <<"0", NL>>
    /\ Cardinality(r.ok) >= 2

\* C5: in part_000 every payload of a successful result is the
\* concatenation, in the order the segments were processed and in item
\* order within an output, of the serialised items routed to its descriptor.
C5_OrderPreserved ==
    (adapter = "multi" /\ Succeeded) =>
        \A e \in r.ok : e.data = ExpectedRange(1, Len(calls), e.sink)

C5_Witness ==
    /\ adapter = "multi" /\ Succeeded /\ Len(calls) = 2
    /\ calls[1].out.kind = "out" /\ calls[1].out.items = <<"s", "0">>
    /\ calls[2].out.kind = "out" /\ calls[2].out.items = <<"0", "s">>
    /\ PayloadOf(SinkFile("out")) =
            <<"\"", "s", "\"", NL, "0", NL, "0", NL, "\"", "s", "\"", NL>>

\* C6: in part_000 every buffer obtained from bufPool during an invocation
\* is back in bufPool when ProcessLogs returns, on every exit path.
C6_ReleasedOnEveryExit ==
    (adapter = "multi" /\ pc = "done") => borrowed = {}

\* Some sink of the output is of none of the cases part_000 knows.
HasUnknownSink(out) ==
    out.kind = "out" /\ \E i \in 1..Len(out.sinks) : out.sinks[i].tag \notin KnownTags

\* A recognised sink stands before the first unknown one.
KnownSinkFirst(out) == out.sinks[1].tag \in KnownTags

\* C7 as claimed: in part_000 an output with an unknown sink makes
\* ProcessLogs return the error 'unknown sink type' with no output list.
C7_UnknownSinkMessage ==
    adapter = "multi" =>
        \A k \in 1..Len(calls) :
            HasUnknownSink(calls[k].out) =>
                pc = "done" /\ r.isErr /\ r.ok = {} /\ r.err = "unknown sink type"

\* C7 as amended: in part_000 an output with an unknown sink is never
\* skipped: it is the last one processed and ProcessLogs returns an error
\* with no output list; the error is 'unknown sink type' unless serialising
\* an item for a recognised sink listed before the unknown one failed first,
\* and then it is that encoding error.
C7_UnknownSinkIsError ==
    adapter = "multi" =>
        \A k \in 1..Len(calls) :
            LET o == calls[k].out
            IN  HasUnknownSink(o) =>
                    /\ k = Len(calls)
                    /\ pc = "done" /\ r.isErr /\ r.ok = {}
                    /\ IF KnownSinkFirst(o) /\ HasUnencodable(o)
                       THEN r.err = "json: unsupported type: chan int"
                       ELSE r.err = "unknown sink type"

C7_Witness ==
    /\ adapter = "multi" /\ pc = "done" /\ Len(calls) = 1
    /\ calls[1].out.kind = "out"
    /\ calls[1].out.sinks = <<SinkBlackhole("out"), SinkOther>>
    /\ r.isErr /\ r.err = "unknown sink type"
    /\ DOMAIN states # {}

\* Index of the first malformed value of the input, 0 when there is none.
FirstBad(input) ==
    IF \E i \in 1..Len(input) : input[i] = "bad"
    THEN CHOOSE i \in 1..Len(input) :
            input[i] = "bad" /\ \A j \in 1..(i - 1) : input[j] # "bad"
    ELSE 0

\* The call makes the zeek loop return an error by itself.
ZeekCallFails(c) ==
    \/ c.out.kind = "err"
    \/ HasUnencodable(c.out)
    \/ c.out.kind = "out" /\ \E i \in 1..Len(c.out.sinks) : c.out.sinks[i].tag \notin {"s3", "file"}

\* C8: in zeek, when decoding record k fails (not end of input), the
\* handler is invoked neither on record k nor on a later one, and
\* ProcessLogs returns an error and no output list although records
\* 1..k-1 were routed; the error is the decoding error when no earlier
\* record failed.
C8_DecodeErrorFatal ==
    (adapter = "zeek" /\ FirstBad(in) > 0) =>
        /\ Len(calls) < FirstBad(in)
        /\ \A i \in 1..Len(calls) : calls[i].seg = in[i] /\ calls[i].seg # "bad"
        /\ pc = "done" =>
            /\ r.isErr /\ r.ok = {}
            /\ (\A i \in 1..Len(calls) : ~ZeekCallFails(calls[i])) =>
                    Len(calls) = FirstBad(in) - 1 /\ r.err = DecodeError

C8_Witness ==
    /\ adapter = "zeek" /\ pc = "done" /\ in = <<"obj", "bad">>
    /\ Len(calls) = 1 /\ calls[1].out.kind = "out"
    /\ \E k \in DOMAIN states : heap[states[k]] # <<>>
    /\ r.isErr /\ r.err = DecodeError

\* C9: on an input of length 0, ProcessLogs of part_000 and of zeek returns
\* success with an empty output list, never calls the handler and takes no
\* buffer from bufPool.
C9_EmptyBatch ==
    (adapter \in {"multi", "zeek"} /\ pc = "done" /\ Len(in) = 0) =>
        /\ ~r.isErr /\ r.ok = {}
        /\ calls = <<>>
        /\ got = {} /\ borrowed = {} /\ DOMAIN states = {}

C9_Witness == adapter = "zeek" /\ pc = "done" /\ Len(in) = 0 /\ mapPool # <<>>

\* C10: ocsf with the echo handler: for the input made of the lines L1 and
\* L2, with or without a final newline, ProcessLogs returns exactly one
\* output, for S3{name "out", no prefix}, whose payload is L1, newline, L2,
\* newline.  (An empty L2 without final newline is the one-line input
\* "L1 newline" and is not an input of two lines.)
C10_TwoLineExample ==
    \A l1 \in Lines, l2 \in Lines, t \in BOOLEAN :
        (adapter = "ocsf" /\ h = "echo" /\ pc = "done"
            /\ in = TwoLines(l1, l2, t) /\ (l2 # <<>> \/ t)) =>
            /\ ~r.isErr
            /\ Cardinality(r.ok) = 1
            /\ \A e \in r.ok :
                /\ e.sink = [tag |-> "s3", name |-> "out", prefix |-> None]
                /\ e.data = l1 \o <<NL>> \o l2 \o <<NL>>

C10_Witness ==
    /\ adapter = "ocsf" /\ pc = "done"
    /\ in = <<"a", "b", NL, "b">>
    /\ \E e \in r.ok : e.data = <<"a", "b", NL, "b", NL>>


---------------------------------------------------------------------------
(* Pooling across sequential invocations (multi) *)

\* The entries of bufPool in existence: those it holds and those the running
\* invocation has borrowed from it.  A buffer an earlier invocation never
\* put back is garbage, no entry of the pool.
PoolEntries == bufPool \cup Held(Store)

\* C11: over any sequence of sequential ProcessLogs invocations the number
\* of bufPool entries in existence never exceeds the largest number of
\* buffers a single invocation has held borrowed at the same time.
C11_PoolBounded ==
    adapter = "multi" => Cardinality(PoolEntries) <= peak

\* A second invocation has returned two buckets, and the two buffers it used
\* are the only ones ever made.
C11_Witness ==
    /\ adapter = "multi" /\ pc = "done" /\ invocations = 2
    /\ ~r.isErr /\ Cardinality(r.ok) = 2
    /\ peak = 2 /\ Cardinality(bufPool) = 2
    /\ Cardinality(DOMAIN heap) = 2


\* The storage a result entry's Data points into: cm.ToList keeps the slice
\* st.buf.Bytes() returned, which is the buffer's own array.
StorageOf(e) == e.buf

\* C12: once ProcessLogs has returned its OK list, no payload in it shares
\* storage with a buffer that is back in bufPool.
C12_NoSharedStorage ==
    (adapter = "multi" /\ pc = "done" /\ ~r.isErr) =>
        \A e \in r.ok : StorageOf(e) \notin bufPool


\* C13: in part_000 a bucket's buffer holds nothing but what the running
\* invocation wrote into it, and every pooled buffer is empty; so the
\* payloads of a later invocation are those its own handler calls ask for,
\* whatever earlier invocations, successful or failed, wrote.
C13_Isolation ==
    adapter = "multi" =>
        /\ \A b \in bufPool : heap[b] = <<>>
        /\ pc \in {"loop", "assemble"} =>
            \A k \in DOMAIN states :
                heap[states[k]] = ExpectedRange(1, Len(calls), MultiSinkOf(k))
        /\ Succeeded =>
            /\ \A e \in r.ok : e.data = ExpectedRange(1, Len(calls), e.sink)
            /\ \A d \in SinkVocab : ~HasEntry(d) => ExpectedRange(1, Len(calls), d) = <<>>

\* The second invocation returns a payload from a buffer that the first
\* invocation had filled.
C13_Witness ==
    /\ adapter = "multi" /\ Succeeded /\ invocations = 2
    /\ \E e \in r.ok :
        /\ e.data # <<>>
        /\ <<StorageOf(e), 1>> \in dirtied
        /\ <<StorageOf(e), 2>> \in dirtied


---------------------------------------------------------------------------
(* Key construction *)

\* C14: in part_000 two recognised descriptors that differ in variant, in
\* name or in key prefix (an absent prefix differs from a present empty one)
\* get different sinkKey values, hence different buckets; equal descriptors
\* get the same key.
C14_KeyInjective ==
    (adapter = "multi" /\ pc = "keyed") =>
        /\ ret.keys[1].err = "" /\ ret.keys[2].err = ""
        /\ (args[1] # args[2]) <=> (ret.keys[1].key # ret.keys[2].key)
        /\ Cardinality(DOMAIN ret.states) = (IF args[1] # args[2] THEN 2 ELSE 1)

\* The same S3 name, once without a prefix and once with the empty prefix.
C14_Witness ==
    /\ adapter = "multi" /\ pc = "keyed"
    /\ args = <<SinkS3("a", None), SinkS3("a", Some(""))>>
    /\ Cardinality(DOMAIN ret.states) = 2


---------------------------------------------------------------------------
(* Sink vocabulary (zeek) *)

\* C15: in zeek the error 'unknown sink type' is returned only for an output
\* naming a sink outside the vocabulary default / s3 / file / blackhole; an
\* output whose sinks are all of the vocabulary is routed.
C15_VocabularyRouted ==
    (adapter = "zeek" /\ pc = "done" /\ r.isErr /\ r.err = "unknown sink type") =>
        HasUnknownSink(calls[Len(calls)].out)


---------------------------------------------------------------------------
(* Dropped records (multi, zeek) *)

\* The step is a handler call that returned nil and no error.
DropStep ==
    /\ Len(calls') = Len(calls) + 1
    /\ calls'[Len(calls')].out.kind = "nil"

AllDropped == \A k \in 1..Len(calls) : calls[k].out.kind = "nil"

\* C16: in part_000 and zeek a handler call returning nil without an error
\* creates and modifies no bucket, takes no buffer, raises no error and
\* leaves the loop running; a batch whose records are all dropped (none of
\* them malformed) returns success with an empty output list.
C16_DroppedRecord ==
    /\ [][DropStep =>
            /\ states' = states /\ heap' = heap
            /\ bufPool' = bufPool /\ borrowed' = borrowed
            /\ r' = r /\ pc' \in {"loop", "assemble"}]_vars
    /\ []((/\ adapter \in {"multi", "zeek"} /\ pc = "done" /\ AllDropped
           /\ adapter = "zeek" => FirstBad(in) = 0) =>
            (~r.isErr /\ r.ok = {} /\ states = EmptyStates /\ got = {}))

\* Two records, both dropped, and the invocation has returned success.
C16_Witness ==
    /\ adapter = "zeek" /\ pc = "done"
    /\ Len(calls) = 2 /\ AllDropped
    /\ ~r.isErr /\ r.ok = {}


---------------------------------------------------------------------------
(* Default-sink fallback (ocsf, s3only) *)

\* The call returned a non-nil output with an empty sink list.
NoSinksNamed(c) == c.out.kind = "out" /\ Len(c.out.sinks) = 0

\* C17: in the S3-only adapters a non-nil output with an empty sink list is
\* not lost: a successful result has an entry for the default sink.
C17_DefaultNotLost ==
    (adapter \in {"ocsf", "s3only"} /\ Succeeded) =>
        \A k \in 1..Len(calls) :
            NoSinksNamed(calls[k]) => HasEntry(SinkDefault)


---------------------------------------------------------------------------
(* Unknown sinks (strkey) *)

\* Some sink of the output is not an S3 sink.
HasNonS3Sink(out) ==
    out.kind = "out" /\ \E i \in 1..Len(out.sinks) : out.sinks[i].tag # "s3"

\* C18: in the string-keyed adapter a handler call whose output names a
\* non-S3 sink ends the invocation with an error and no output list.
C18_NoSilentDrop ==
    adapter = "strkey" =>
        \A k \in 1..Len(calls) :
            HasNonS3Sink(calls[k].out) => (pc = "done" /\ r.isErr /\ r.ok = {})


\* C19: in the string-keyed adapter two S3 descriptors that differ in name
\* or in key prefix get different buckets, whatever bytes (the NUL byte
\* included) the names and prefixes hold.
C19_StringKeyInjective ==
    (/\ adapter = "strkey" /\ pc = "keyed"
     /\ args[1].tag = "s3" /\ args[2].tag = "s3" /\ args[1] # args[2]) =>
        /\ ret.keys[1].key # ret.keys[2].key
        /\ Cardinality(DOMAIN ret.states) = 2


---------------------------------------------------------------------------
(* Release clears contents (zeek) *)

\* C20: in zeek every entry is cleared when it is put back into its pool:
\* a pooled reader refers to no input, a pooled scratch map has no keys
\* and a pooled buffer has length 0.
C20_ReleaseClears ==
    adapter = "zeek" =>
        /\ \A i \in 1..Len(rdrPool) : rdrPool[i] = <<>>
        /\ \A i \in 1..Len(mapPool) : mapPool[i] = {}
        /\ \A b \in bufPool : heap[b] = <<>>


---------------------------------------------------------------------------
(* Exactly-once release (zeek) *)

\* The decode loop has run at least one iteration.
Iterated == pc \in {"assemble", "done"} \/ start > 0

\* The buffers of the buckets.
BucketBuffers == {states[k] : k \in DOMAIN states}

\* C21: in zeek, between two iterations of the decode loop and at every
\* return (end of input, decode error, handler error) the one scratch map
\* the invocation took is back in mapPool, once; while the loop runs every
\* bucket has a borrowed buffer of its own, and on success each of them is
\* back in bufPool, put there by the one release step of its bucket.
C21_ExactlyOnce ==
    adapter = "zeek" =>
        /\ Len(mapPool) = (IF Iterated THEN 1 ELSE 0)
        /\ Cardinality(BucketBuffers) = Cardinality(DOMAIN states)
        /\ pc \in {"loop", "assemble"} =>
            /\ BucketBuffers = got
            /\ got \subseteq borrowed /\ got \cap bufPool = {}
        /\ Succeeded =>
            /\ BucketBuffers = got
            /\ got \subseteq bufPool /\ got \cap borrowed = {}

\* Two records went to two buckets and the invocation has returned them.
C21_Witness ==
    /\ adapter = "zeek" /\ Succeeded
    /\ Len(calls) = 2 /\ Cardinality(r.ok) = 2
    /\ Len(mapPool) = 1 /\ Cardinality(got) = 2


---------------------------------------------------------------------------
(* The Zeek mapper with pooled encoder *)

RECURSIVE MapperLines(_)
\* One line per view, in input order.
MapperLines(views) ==
    IF views = <<>> THEN <<>>
    ELSE MapperLine(Head(views)) \o MapperLines(Tail(views))

AllTsValid == \A i \in 1..Len(in) : in[i].ts = "ok"

\* C22: for a batch of views that all carry a valid 'ts' the mapper's
\* ProcessLogs returns success and the payload is the views' JSON lines,
\* one per view, in input order.
C22_MapperPayload ==
    (adapter = "mapper" /\ pc = "done" /\ AllTsValid) =>
        (~r.isErr /\ r.ok = MapperLines(in))

\* C23: after a mapper invocation has returned, neither the pooled buffer
\* nor the buffer behind the pooled encoder holds bytes.
C23_NothingRetained ==
    (adapter = "mapper" /\ pc = "done") =>
        \A b \in bufPool \cup encPool : heap[b] = <<>>


---------------------------------------------------------------------------
(* The basic ProcessLogs *)

\* C24: when the input of the basic ProcessLogs is not valid JSON, the
\* result returned is the error result carrying the decode message.
C24_DecodeErrorSurfaced ==
    (adapter = "basic" /\ pc = "done" /\ ~ValidJson(in)) =>
        (r.isErr /\ r.err = DecodeError)


---------------------------------------------------------------------------
(* Termination of the decode loop (multi) *)

\* The step is one iteration of the decode loop.
IterationStep == adapter = "multi" /\ pc = "loop" /\ Len(calls') = Len(calls) + 1

NumNewlines(s) == Cardinality({i \in 1..Len(s) : s[i] = NL})

\* The handler has been invoked at most once per newline-delimited segment.
AtMostOncePerSegment == adapter = "multi" => Len(calls) <= NumNewlines(in) + 1

Returns == (adapter = "multi" /\ pc \in {"loop", "assemble"}) ~> (pc = "done")

\* C25 as claimed: in part_000 start strictly increases on every iteration
\* of the decode loop, and ProcessLogs eventually returns after at most one
\* handler call per segment.
C25_StartIncreasesEveryIteration ==
    /\ [][IterationStep => start' > start]_vars
    /\ []AtMostOncePerSegment
    /\ Returns

\* C25: in part_000 every iteration of the decode loop either strictly
\* increases start, staying within the input, or is the last one (the break
\* after an unterminated final segment, or an error return); ProcessLogs
\* eventually returns, after at most one handler call per segment.
C25_Terminates ==
    /\ [][IterationStep =>
            \/ start < start' /\ start' <= Len(in)
            \/ start' = start /\ pc' \in {"assemble", "done"}]_vars
    /\ []AtMostOncePerSegment
    /\ Returns

\* An invocation on two segments has returned after two iterations: the
\* first stepped over the newline, the last left start where it was.
C25_Witness ==
    /\ adapter = "multi" /\ pc = "done" /\ ~r.isErr
    /\ in = <<NL, "a">> /\ Len(calls) = 2 /\ start = 1


---------------------------------------------------------------------------
(* Line segmentation (multi, ocsf) *)

\* The position, from 1, of the j-th newline of s.
NthNewline(s, j) ==
    CHOOSE i \in 1..Len(s) :
        s[i] = NL /\ Cardinality({m \in 1..i : s[m] = NL}) = j

\* The pieces of s between its newlines, in order; the piece after a final
\* newline is left out.
Segments(s) ==
    LET k == NumNewlines(s)
        n == IF k > 0 /\ NthNewline(s, k) = Len(s) THEN k ELSE k + 1
        from(j) == IF j = 1 THEN 1 ELSE NthNewline(s, j - 1) + 1
        to(j) == IF j <= k THEN NthNewline(s, j) - 1 ELSE Len(s)
    IN  [j \in 1..n |-> SubSeq(s, from(j), to(j))]

SegmentsPassed == [j \in 1..Len(calls) |-> calls[j].seg]

LineAdapter == adapter \in {"multi", "ocsf"}

\* C26: in part_000 and ocsf-go the handler is invoked on the segments of a
\* non-empty input in order, once each: empty segments between newlines are
\* passed, the empty remainder after a trailing newline is not, and no
\* segment holds a newline.  A batch stopped by an error has seen a prefix.
C26_Segmentation ==
    (LineAdapter /\ in # <<>>) =>
        /\ Len(calls) <= Len(Segments(in))
        /\ SegmentsPassed = SubSeq(Segments(in), 1, Len(calls))
        /\ \A j \in 1..Len(calls) : \A m \in 1..Len(calls[j].seg) : calls[j].seg[m] # NL
        /\ (pc \in {"assemble", "done"} /\ ~r.isErr) => Len(calls) = Len(Segments(in))

\* Two consecutive newlines: two empty segments passed, then nothing.
C26_Witness ==
    /\ adapter = "multi" /\ pc = "done" /\ ~r.isErr
    /\ in = <<NL, NL>> /\ SegmentsPassed = << <<>>, <<>> >>


---------------------------------------------------------------------------
(* The result set (multi) *)

\* Descriptor d is named, or defaulted, by the output of some record.
NamedBySomeOutput(d) ==
    \E k \in 1..Len(calls) :
        calls[k].out.kind = "out" /\ Occurrences(d, TargetsOf(calls[k].out)) > 0

\* Every output that names d carries no items.
OnlyZeroItemOutputs(d) ==
    \A k \in 1..Len(calls) :
        (calls[k].out.kind = "out" /\ Occurrences(d, TargetsOf(calls[k].out)) > 0)
            => calls[k].out.items = <<>>

EntriesFor(d) == {e \in r.ok : e.sink = d}

\* C27: in part_000 a successful result has exactly one entry for every
\* descriptor that some non-nil output named or defaulted to, and no other
\* entry; a descriptor named only by outputs without items has its entry
\* too, with an empty payload.
C27_ResultSet ==
    (adapter = "multi" /\ Succeeded) =>
        /\ \A d \in SinkVocab :
            Cardinality(EntriesFor(d)) = IF NamedBySomeOutput(d) THEN 1 ELSE 0
        /\ \A e \in r.ok : e.sink \in SinkVocab
        /\ \A d \in SinkVocab :
            (NamedBySomeOutput(d) /\ OnlyZeroItemOutputs(d)) =>
                \A e \in EntriesFor(d) : e.data = <<>>

\* A batch whose only output names two sinks and carries no items.
C27_Witness ==
    /\ adapter = "multi" /\ Succeeded
    /\ Len(calls) = 1 /\ calls[1].out.kind = "out" /\ calls[1].out.items = <<>>
    /\ Cardinality(r.ok) = 2
    /\ \A e \in r.ok : e.data = <<>>


---------------------------------------------------------------------------
(* Duplicate descriptors in one sink list (multi) *)

\* What the bucket of descriptor d holds (nothing when it has no bucket).
BucketOf(d) ==
    LET k == sinkKeyFrom(d).key
    IN  IF k \in DOMAIN states THEN heap[states[k]] ELSE <<>>

\* The records so far were all routed without error and nothing is released.
Routing == adapter = "multi" /\ pc \in {"loop", "assemble"}

\* C28: in part_000 the sink list is a sequence, not a set: an output that
\* lists a descriptor m times has its items appended m times to that
\* descriptor's bucket, the copies one after the other.
C28_DuplicatesAppendAgain ==
    Routing =>
        /\ \A d \in SinkVocab : d.tag \in KnownTags =>
            Len(BucketOf(d)) = Len(ExpectedRange(1, Len(calls), d))
        /\ Len(calls) = 1 =>
            \A d \in SinkVocab : d.tag \in KnownTags =>
                LET o == calls[1].out
                    m == IF o.kind = "out" THEN Occurrences(d, TargetsOf(o)) ELSE 0
                IN  BucketOf(d) = Repeat(SerialisedItems(o.items), m)

\* One output listing the file sink twice: its bucket holds the item twice.
C28_Witness ==
    /\ adapter = "multi" /\ pc = "assemble" /\ Len(calls) = 1
    /\ calls[1].out.sinks = <<SinkFile("out"), SinkFile("out")>>
    /\ calls[1].out.items = <<"0">>
    /\ BucketOf(SinkFile("out")) = <<"0", NL, "0", NL>>


---------------------------------------------------------------------------
(* Scratch-map lifetime (zeek) *)

\* The line Encode writes for Data when the scratch map is empty.
EncodedAfterClear(data) ==
    IF data = "m" THEN <<"{", "}", NL>> ELSE Marshal(data).bytes \o <<NL>>

\* The line Encode would write for the Data of call k as the handler
\* returned it, the scratch map still holding what was decoded into it.
EncodedAtReturn(k) ==
    ZeekEncode(calls[k].out.data, ZeekDecode(in, k - 1, {}).m).bytes

ZeekBucketOf(d) ==
    LET k == IF d = SinkDefault THEN DefaultKey ELSE ZeekSinkKey(d).key
    IN  IF k \in DOMAIN states THEN heap[states[k]] ELSE <<>>

RECURSIVE ZeekExpected(_, _)
\* What calls 1..n append to the bucket of descriptor d, in call order.
ZeekExpected(n, d) ==
    IF n = 0 THEN <<>>
    ELSE LET o == calls[n].out
         IN  ZeekExpected(n - 1, d)
             \o (IF o.kind = "out"
                 THEN Repeat(EncodedAfterClear(o.data), Occurrences(d, TargetsOf(o)))
                 ELSE <<>>)

ZeekRouted == {SinkDefault, SinkS3("out", None), SinkS3("out", Some("p")), SinkFile("out")}

---------------------------------------------------------------------------
(* Descriptor round trip (multi) *)

\* C30: in part_000, for every recognised descriptor d, the sink of the
\* result entry built from d's bucket equals d, and sinkKeyFrom of that
\* sink is the key of the bucket the entry was built from.
C30_RoundTrip ==
    (adapter = "multi" /\ pc = "keyed") =>
        /\ \A i \in 1..2 :
            /\ ret.keys[i].err = ""
            /\ \E o \in ret.outputs :
                o.sink = args[i] /\ o.buf = ret.states[ret.keys[i].key]
        /\ \A o \in ret.outputs :
            LET k == sinkKeyFrom(o.sink)
            IN  /\ k.err = ""
                /\ k.key \in DOMAIN ret.states
                /\ ret.states[k.key] = o.buf

\* An s3 descriptor with a present, empty prefix and one without prefix,
\* each found again in its own entry.
C30_Witness ==
    /\ adapter = "multi" /\ pc = "keyed"
    /\ args = <<SinkS3("a", Some("")), SinkS3("a", None)>>
    /\ Cardinality(ret.outputs) = 2
    /\ \E o \in ret.outputs : o.sink = SinkS3("a", Some(""))

=============================================================================
